---- MODULE Spec2Model ----
(***************************************************************************)
(* Model of keyword_extractor.py: the keyword filter, the result           *)
(* formatter, the DOCX exporter and the event handlers of the Flet shell   *)
(* (pick_files_result, process_click, update_output, on_save_result).      *)
(*                                                                         *)
(* A Python str is a sequence of one-character strings.  The module is     *)
(* ASCII only, so the Polish letters of the literals are written without   *)
(* their diacritics ("Zrodlo" for the header word, "plikow", "Blad").      *)
(***************************************************************************)
EXTENDS Integers, Sequences, FiniteSets, TLC

VARIABLES
    picker_result,         \* file_picker.result
    picked_files_display,  \* picked_files_display.value
    source_paragraphs,     \* dict source -> paragraphs, in insertion order
    keywords,              \* the keyword list of the closure
    source_checkboxes,     \* dict source -> checkbox, in insertion order
    output_area,           \* output_area.value
    matching_paragraphs,   \* the list update_output last built
    snack_bar,             \* the SnackBar the last handler opened, if it opened one
    shell,                 \* Idle or Ready: where the last submit left the shell
    document,              \* the file the last handler wrote, if it wrote one
    par_in, kws_in,        \* a paragraph and a keyword list to filter it by
    fun_out                \* what the keyword filter made of them

vars == <<picker_result, picked_files_display, source_paragraphs, keywords,
          source_checkboxes, output_area, matching_paragraphs, snack_bar,
          shell, document, par_in, kws_in, fun_out>>

shellVars == <<picker_result, picked_files_display, source_paragraphs, keywords,
               source_checkboxes, output_area, matching_paragraphs, snack_bar,
               shell, document>>

funVars == <<par_in, kws_in, fun_out>>

----------------------------------------------------------------------------
(* Characters and strings *)

LowerLetters == <<"a","b","c","d","e","f","g","h","i","j","k","l","m",
                  "n","o","p","q","r","s","t","u","v","w","x","y","z">>
UpperLetters == <<"A","B","C","D","E","F","G","H","I","J","K","L","M",
                  "N","O","P","Q","R","S","T","U","V","W","X","Y","Z">>
Digits == {"0","1","2","3","4","5","6","7","8","9"}

Range(s) == {s[i] : i \in 1..Len(s)}

WordChars == Range(LowerLetters) \cup Range(UpperLetters) \cup Digits \cup {"_"}

\* the regex class \w
IsWordChar(c) == c \in WordChars

\* the regex class \s, which is also what str.strip() removes
IsSpace(c) == c \in {" ", "\n", "\t", "\r"}

\* str.lower() on one character; re.IGNORECASE compares through it
LowerOf == [c \in Range(UpperLetters) |->
               LowerLetters[CHOOSE i \in 1..Len(UpperLetters) : UpperLetters[i] = c]]

LowerChar(c) == IF c \in DOMAIN LowerOf THEN LowerOf[c] ELSE c

lower(s) == [i \in 1..Len(s) |-> LowerChar(s[i])]

Min(S) == CHOOSE x \in S : \A y \in S : x <= y
Max(S) == CHOOSE x \in S : \A y \in S : y <= x

\* the elements of a set of integers in increasing order
Sorted(S) == [k \in 1..Cardinality(S) |->
                 CHOOSE x \in S : Cardinality({y \in S : y < x}) = k - 1]

\* str.strip()
strip(s) ==
    LET keep == {i \in 1..Len(s) : ~IsSpace(s[i])}
    IN  IF keep = {} THEN <<>> ELSE SubSeq(s, Min(keep), Max(keep))

\* s[:n]
Prefix(s, n) == SubSeq(s, 1, IF Len(s) < n THEN Len(s) ELSE n)

RECURSIVE Concat(_)
Concat(ss) == IF ss = <<>> THEN <<>> ELSE Head(ss) \o Concat(Tail(ss))

\* sep.join(parts)
RECURSIVE join(_, _)
join(sep, parts) ==
    IF parts = <<>> THEN <<>>
    ELSE IF Len(parts) = 1 THEN parts[1]
    ELSE parts[1] \o sep \o join(sep, Tail(parts))

----------------------------------------------------------------------------
(* The regular expressions of the program *)

\* \b at the gap before s[i] (i = Len(s) + 1: at the end of s)
WordBoundary(s, i) ==
    (i > 1 /\ IsWordChar(s[i - 1])) # (i <= Len(s) /\ IsWordChar(s[i]))

\* KeywordAt without the closing \b: the keyword may open a longer word
KeywordAtOpenEnd(s, kw, i) ==
    /\ i >= 1
    /\ i + Len(kw) - 1 <= Len(s)
    /\ \A k \in 1..Len(kw) : LowerChar(s[i + k - 1]) = LowerChar(kw[k])
    /\ WordBoundary(s, i)

\* the pattern \b + re.escape(kw) + \b with re.IGNORECASE, tried at position i
KeywordAt(s, kw, i) ==
    /\ i >= 1
    /\ i + Len(kw) - 1 <= Len(s)
    /\ \A k \in 1..Len(kw) : LowerChar(s[i + k - 1]) = LowerChar(kw[k])
    /\ WordBoundary(s, i)
    /\ WordBoundary(s, i + Len(kw))

\* where the pattern of kw matches in s
KeywordStarts(s, kw) ==
    LET first == LowerChar(kw[1])
    IN  {i \in {j \in 1..Len(s) : LowerChar(s[j]) = first} : KeywordAt(s, kw, i)}

\* re.search(pattern, paragraph, flags=re.IGNORECASE) is not None
KeywordSearch(s, kw) == KeywordStarts(s, kw) # {}

\* pattern.sub(replacer, paragraph) from position from on: the leftmost match
\* at or after from is wrapped in asterisks, and the scan goes on behind it
RECURSIVE KeywordSub(_, _, _, _)
KeywordSub(s, kw, starts, from) ==
    LET left == {i \in starts : i >= from}
    IN  IF left = {} THEN SubSeq(s, from, Len(s))
        ELSE LET m == Min(left)
             IN  SubSeq(s, from, m - 1) \o <<"*">> \o SubSeq(s, m, m + Len(kw) - 1)
                 \o <<"*">> \o KeywordSub(s, kw, starts, m + Len(kw))

----------------------------------------------------------------------------
(* paragraph_matches, bold_keywords, build_result_text_with_sources *)

paragraph_matches(paragraph, kws) ==
    \E k \in 1..Len(kws) : kws[k] # <<>> /\ KeywordSearch(paragraph, kws[k])

RECURSIVE bold_keywords(_, _)
bold_keywords(paragraph, kws) ==
    IF kws = <<>> THEN paragraph
    ELSE LET kw == Head(kws)
             bolded == IF kw = <<>> THEN paragraph
                       ELSE KeywordSub(paragraph, kw, KeywordStarts(paragraph, kw), 1)
         IN  bold_keywords(bolded, Tail(kws))

\* "**Zrodlo: " opens the header of an entry
HeaderOpen == <<"*","*","Z","r","o","d","l","o",":"," ">>
HeaderClose == <<"*","*","\n","\n">>
EntrySeparator == <<"\n","-","-","-","\n">>

\* one element of lines: the header of the source, a blank line, the paragraph
ResultLine(source, paragraph, kws) ==
    HeaderOpen \o source \o HeaderClose \o bold_keywords(paragraph, kws) \o <<"\n">>

build_result_text_with_sources(matching, kws) ==
    join(EntrySeparator,
         [i \in 1..Len(matching) |-> ResultLine(matching[i][1], matching[i][2], kws)])

\* shorten_text(text, max_len)
shorten_text(text, max_len) ==
    IF Len(text) <= max_len THEN text
    ELSE SubSeq(text, 1, max_len - 3) \o <<".",".",".">>

----------------------------------------------------------------------------
(* save_as_docx *)

\* where "**" stands in text
StarPairs(text) == {i \in 1..Len(text) - 1 : text[i] = "*" /\ text[i + 1] = "*"}

\* the end of the match of \*\*(.*?)\*\* that opens at i: the first "**" from
\* i + 2 on with no line break before it (0: no match opens at i)
MarkupClose(text, pairs, i) ==
    LET ends == {j \in pairs : j >= i + 2 /\ \A k \in (i + 2)..(j - 1) : text[k] # "\n"}
    IN  IF i \in pairs /\ ends # {} THEN Min(ends) ELSE 0

\* re.sub(r"\*\*(.*?)\*\*", r"\1", text) from position from on
RECURSIVE StripMarkup(_, _, _)
StripMarkup(text, pairs, from) ==
    LET opens == {i \in pairs : i >= from /\ MarkupClose(text, pairs, i) # 0}
    IN  IF opens = {} THEN SubSeq(text, from, Len(text))
        ELSE LET i == Min(opens)
                 j == MarkupClose(text, pairs, i)
             IN  SubSeq(text, from, i - 1) \o SubSeq(text, i + 2, j - 1)
                 \o StripMarkup(text, pairs, j + 2)

\* text.split("\n\n") from position from on
RECURSIVE SplitBlank(_, _)
SplitBlank(text, from) ==
    LET cuts == {i \in from..(Len(text) - 1) : text[i] = "\n" /\ text[i + 1] = "\n"}
    IN  IF cuts = {} THEN <<SubSeq(text, from, Len(text))>>
        ELSE <<SubSeq(text, from, Min(cuts) - 1)>> \o SplitBlank(text, Min(cuts) + 2)

\* the paragraphs save_as_docx adds to the document, in order
DocxParagraphs(text) ==
    LET clean_text == StripMarkup(text, StarPairs(text), 1)
        parts == SplitBlank(clean_text, 1)
        kept == {i \in 1..Len(parts) : strip(parts[i]) # <<>>}
        order == Sorted(kept)
    IN  [k \in 1..Len(order) |-> strip(parts[order[k]])]

----------------------------------------------------------------------------
(* The world outside the program: what the user can enter and what the     *)
(* web and the disk hold                                                   *)

\* the length of the prefix update_output keeps in seen
PrefixLen == 200

\* PrefixLen characters that open two different paragraphs: "a xxx...x"
CommonPrefix == [i \in 1..PrefixLen |-> IF i = 1 THEN "a" ELSE IF i = 2 THEN " " ELSE "x"]
LongA == CommonPrefix \o <<" ", "a">>
LongB == CommonPrefix \o <<" ", "b">>

\* url_field.value: blank, or the address of a page
UrlInputs == {<<>>, <<"u">>}

\* keywords_field.value
KeywordInputs == {<<>>, <<" ">>, <<",">>, <<"b", ",", " ", "A">>}

\* ev.path of the save dialog (empty: dismissed)
PathInputs == {<<>>, <<"r", ".">>, <<"R", ".", "D", "O", "C", "X">>}

\* what extract_text_from_url(url) returns when the request succeeds
WebPage(url) == <<LongA, <<"A", " ", "b">>>>

\* the files the picker can return: f.name and f.path
Files == { [name |-> <<"f">>, path |-> "/d/f"],
           [name |-> <<"g">>, path |-> "/d/g"] }

\* what extract_text_from_pdf_bytes returns for the file when it can be read
PdfFile(path) ==
    IF path = "/d/f" THEN <<LongB, <<"b">>>>
    ELSE <<<<"A", " ", "b">>, <<"a", "b">>, <<"b", "-", "a">>>>

\* e.files of a FilePickerResultEvent: distinct files, none when dismissed
FileSelections ==
    {sel \in UNION {[1..n -> Files] : n \in 0..Cardinality(Files)} :
        \A i, j \in 1..Len(sel) : i # j => sel[i] # sel[j]}

----------------------------------------------------------------------------
(* Dictionaries that keep insertion order: a sequence of entries with      *)
(* pairwise different keys                                                 *)

Keys(d) == [i \in 1..Len(d) |-> d[i].source]

HasKey(d, key) == \E i \in 1..Len(d) : d[i].source = key

\* d[key] = value
DictSet(d, key, value) ==
    IF HasKey(d, key)
    THEN [i \in 1..Len(d) |-> IF d[i].source = key
                              THEN [source |-> key, value |-> value] ELSE d[i]]
    ELSE Append(d, [source |-> key, value |-> value])

\* d.get(key, default)
DictGet(d, key, default) ==
    IF HasKey(d, key) THEN d[CHOOSE i \in 1..Len(d) : d[i].source = key].value
    ELSE default

----------------------------------------------------------------------------
(* update_output *)

\* SelectedSources without the test of cb.value
SelectedSourcesAll(cbs) == [k \in 1..Len(cbs) |-> cbs[k].source]

\* [src for src, cb in source_checkboxes.items() if cb.value]
SelectedSources(cbs) ==
    LET on == {i \in 1..Len(cbs) : cbs[i].value.value}
        order == Sorted(on)
    IN  [k \in 1..Len(order) |-> cbs[order[k]].source]

\* the (source, p) pairs the two loops visit, in the order they visit them
Visited(sp, cbs) ==
    LET sel == SelectedSources(cbs)
    IN  Concat([k \in 1..Len(sel) |->
                   LET paragraphs == DictGet(sp, sel[k], <<>>)
                   IN  [n \in 1..Len(paragraphs) |-> <<sel[k], paragraphs[n]>>]])

\* SeenKey without the slice: the whole paragraph is the key
SeenKeyWhole(p) == p

\* the key under which update_output remembers a paragraph
SeenKey(p) == Prefix(p, PrefixLen)

\* the body of the inner loop over the pairs still to visit
RECURSIVE CollectMatching(_, _, _)
CollectMatching(pairs, kws, seen) ==
    IF pairs = <<>> THEN <<>>
    ELSE LET p == Head(pairs)[2]
             key == SeenKey(p)
         IN  IF paragraph_matches(p, kws) /\ key \notin seen
             THEN <<Head(pairs)>> \o CollectMatching(Tail(pairs), kws, seen \cup {key})
             ELSE CollectMatching(Tail(pairs), kws, seen)

MatchingParagraphs(sp, cbs, kws) == CollectMatching(Visited(sp, cbs), kws, {})

\* update_output with the given closure state
update_output(sp, cbs, kws) ==
    LET matching == MatchingParagraphs(sp, cbs, kws)
    IN  /\ matching_paragraphs' = matching
        /\ output_area' = build_result_text_with_sources(matching, kws)

----------------------------------------------------------------------------
(* What a handler shows and writes *)

\* the text of the SnackBar a handler opens (NoSnackBar: it opens none)
NoSnackBar == "None"
MsgNoSource == "Podaj URL lub wybierz plik(i) PDF"
MsgNoKeyword == "Podaj przynajmniej jedno slowo kluczowe"
MsgFetchError == "Blad przy pobieraniu strony"
MsgPdfError == "Blad przy odczycie PDF"
MsgSaved == "Zapisano"
MsgSaveError == "Blad zapisu"

\* the file a handler wrote: none unless it was on_save_result and doc.save
\* went through
NoDocument == [saved |-> FALSE, path |-> <<>>, paragraphs |-> <<>>]

----------------------------------------------------------------------------
(* pick_files_result *)

NoFilesText == <<"B","r","a","k"," ","w","y","b","r","a","n","y","c","h"," ",
                 "p","l","i","k","o","w">>

\* file_picker.result: None until the picker has answered, then the event
NoResult == [event |-> FALSE, files |-> <<>>]
ResultEvent(files) == [event |-> TRUE, files |-> files]

pick_files_result(files) ==
    /\ picker_result' = ResultEvent(files)
    /\ picked_files_display' =
          IF files # <<>>
          THEN join(<<",", " ">>, [i \in 1..Len(files) |-> files[i].name])
          ELSE NoFilesText
    /\ snack_bar' = NoSnackBar
    /\ document' = NoDocument
    /\ UNCHANGED <<source_paragraphs, keywords, source_checkboxes, output_area,
                   matching_paragraphs, shell>>

PickFiles == \E files \in FileSelections : pick_files_result(files)

----------------------------------------------------------------------------
(* process_click *)

UrlKey(url) == <<"U","R","L",":"," ">> \o url
PdfKey(name) == <<"P","l","i","k"," ","P","D","F",":"," ">> \o name

\* re.split(r"[\s,]+", keywords_raw), the empty pieces dropped
IsSeparator(c) == IsSpace(c) \/ c = ","

SplitKeywords(raw) ==
    LET starts == {i \in 1..Len(raw) :
                      ~IsSeparator(raw[i]) /\ (i = 1 \/ IsSeparator(raw[i - 1]))}
        order == Sorted(starts)
        End(i) == Min({j \in i..Len(raw) : j = Len(raw) \/ IsSeparator(raw[j + 1])})
    IN  [k \in 1..Len(order) |-> SubSeq(raw, order[k], End(order[k]))]

\* file_picker.result.files when there is a result with files, else nothing
PickedFiles == IF picker_result # NoResult THEN picker_result.files ELSE <<>>

\* the loop over files from the one numbered i on; the read or the parse of
\* the one numbered fail_file raises (0: of none).  Gives the mapping the loop
\* leaves and whether it was left by the exception
RECURSIVE LoadFiles(_, _, _, _)
LoadFiles(sp, files, i, fail_file) ==
    IF i > Len(files) THEN [sp |-> sp, failed |-> FALSE]
    ELSE IF i = fail_file THEN [sp |-> sp, failed |-> TRUE]
    ELSE LoadFiles(DictSet(sp, PdfKey(files[i].name), PdfFile(files[i].path)),
                   files, i + 1, fail_file)

\* the checkboxes process_click builds, all ticked
NewCheckboxes(sp) ==
    [i \in 1..Len(sp) |->
        [source |-> sp[i].source,
         value |-> [label |-> shorten_text(sp[i].source, 40), value |-> TRUE]]]

\* AbortRun with the checkboxes cleared only after the loads
AbortRunKeepCheckboxes(sp, message) ==
    /\ source_paragraphs' = sp
    /\ snack_bar' = message
    /\ shell' = "Idle"
    /\ UNCHANGED <<source_checkboxes, output_area, matching_paragraphs>>

\* a load raised: the handler shows the message and returns, leaving the
\* mapping as the loads before it made it
AbortRun(sp, message) ==
    /\ source_paragraphs' = sp
    /\ source_checkboxes' = <<>>
    /\ snack_bar' = message
    /\ shell' = "Idle"
    /\ UNCHANGED <<output_area, matching_paragraphs>>

\* a submit without a source or without a keyword: the message, and nothing else
RejectSubmit(message) ==
    /\ snack_bar' = message
    /\ document' = NoDocument
    /\ UNCHANGED <<picker_result, picked_files_display, source_paragraphs,
                   keywords, source_checkboxes, output_area,
                   matching_paragraphs, shell>>

\* fail_at: which of the loads of this run raises, counted in the order the
\* handler makes them, the page first (0: none)
process_click(url_value, keywords_value, fail_at) ==
    LET url == strip(url_value)
        keywords_raw == strip(keywords_value)
        url_loads == IF url # <<>> THEN 1 ELSE 0
        url_fails == url # <<>> /\ fail_at = 1
        after_url == IF url # <<>> THEN DictSet(<<>>, UrlKey(url), WebPage(url)) ELSE <<>>
        loaded == LoadFiles(after_url, PickedFiles, 1,
                            IF fail_at > url_loads THEN fail_at - url_loads ELSE 0)
    IN  IF url = <<>> /\ picker_result = NoResult
        THEN RejectSubmit(MsgNoSource)
        ELSE IF keywords_raw = <<>>
        THEN RejectSubmit(MsgNoKeyword)
        ELSE /\ keywords' = SplitKeywords(keywords_raw)
             /\ document' = NoDocument
             /\ UNCHANGED <<picker_result, picked_files_display>>
             /\ IF url_fails
                THEN AbortRun(<<>>, MsgFetchError)
                ELSE IF loaded.failed
                THEN AbortRun(loaded.sp, MsgPdfError)
                ELSE /\ source_paragraphs' = loaded.sp
                     /\ source_checkboxes' = NewCheckboxes(loaded.sp)
                     /\ snack_bar' = NoSnackBar
                     /\ shell' = "Ready"
                     /\ update_output(loaded.sp, NewCheckboxes(loaded.sp),
                                      SplitKeywords(keywords_raw))

\* how many loads a submit with this URL makes when none fails
LoadCount(url_value) == (IF strip(url_value) # <<>> THEN 1 ELSE 0) + Len(PickedFiles)

ProcessClick ==
    \E url_value \in UrlInputs, keywords_value \in KeywordInputs :
        \E fail_at \in 0..LoadCount(url_value) :
            process_click(url_value, keywords_value, fail_at)

----------------------------------------------------------------------------
(* A checkbox of the filter column is clicked: its value flips and its     *)
(* on_change handler, update_output, runs                                  *)

\* ToggleCheckbox with no on_change handler on the checkbox
ToggleCheckboxNoHandler ==
    \E i \in 1..Len(source_checkboxes) :
        /\ source_checkboxes' = [source_checkboxes EXCEPT
                                    ![i].value.value = ~source_checkboxes[i].value.value]
        /\ snack_bar' = NoSnackBar
        /\ document' = NoDocument
        /\ UNCHANGED <<picker_result, picked_files_display, source_paragraphs,
                       keywords, output_area, matching_paragraphs, shell>>

ToggleCheckbox ==
    \E i \in 1..Len(source_checkboxes) :
        LET cbs == [source_checkboxes EXCEPT
                       ![i].value.value = ~source_checkboxes[i].value.value]
        IN  /\ source_checkboxes' = cbs
            /\ update_output(source_paragraphs, cbs, keywords)
            /\ snack_bar' = NoSnackBar
            /\ document' = NoDocument
            /\ UNCHANGED <<picker_result, picked_files_display, source_paragraphs,
                           keywords, shell>>

----------------------------------------------------------------------------
(* on_save_result *)

DocxSuffix == <<".", "d", "o", "c", "x">>

endswith(s, suffix) ==
    Len(s) >= Len(suffix) /\ SubSeq(s, Len(s) - Len(suffix) + 1, Len(s)) = suffix

\* path.rstrip(".")
rstrip_dots(path) ==
    LET keep == {i \in 1..Len(path) : path[i] # "."}
    IN  IF keep = {} THEN <<>> ELSE SubSeq(path, 1, Max(keep))

SavePath(path) ==
    IF endswith(lower(path), DocxSuffix) THEN path ELSE rstrip_dots(path) \o DocxSuffix

\* written: whether doc.save(path) succeeds
on_save_result(ev_path, written) ==
    /\ IF ev_path = <<>>
       THEN /\ snack_bar' = NoSnackBar
            /\ document' = NoDocument
       ELSE IF written
       THEN /\ document' = [saved |-> TRUE, path |-> SavePath(ev_path),
                            paragraphs |-> DocxParagraphs(output_area)]
            /\ snack_bar' = MsgSaved
       ELSE /\ snack_bar' = MsgSaveError
            /\ document' = NoDocument
    /\ UNCHANGED <<picker_result, picked_files_display, source_paragraphs,
                   keywords, source_checkboxes, output_area,
                   matching_paragraphs, shell>>

SaveResult ==
    \E ev_path \in PathInputs, written \in BOOLEAN : on_save_result(ev_path, written)

----------------------------------------------------------------------------
(* The keyword filter on its own: paragraph_matches, and update_output over *)
(* one included source that holds the one paragraph                         *)

\* the longest paragraph, the longest keyword and the longest keyword list tried
MaxParLen == 3
MaxKwLen == 2
MaxKeywords == 1

\* a lower-case letter, its upper case, and a character that is no word character
FilterAlphabet == {"a", "A", "-"}

TextsUpTo(n) == UNION {[1..k -> FilterAlphabet] : k \in 0..n}

KeywordListsUpTo(n, m) == UNION {[1..k -> TextsUpTo(m)] : k \in 0..n}

NotCalled == [called |-> FALSE, matches |-> FALSE, selected |-> <<>>]

\* the source the paragraph is filed under
OneSource == UrlKey(<<"u">>)

ApplyFilter ==
    /\ ~fun_out.called
    /\ fun_out' =
          [called |-> TRUE,
           matches |-> paragraph_matches(par_in, kws_in),
           selected |-> MatchingParagraphs(DictSet(<<>>, OneSource, <<par_in>>),
                                           NewCheckboxes(DictSet(<<>>, OneSource, <<par_in>>)),
                                           kws_in)]
    /\ UNCHANGED <<par_in, kws_in>>

----------------------------------------------------------------------------
(* The shell *)

ShellInit ==
    /\ picker_result = NoResult
    /\ picked_files_display = NoFilesText
    /\ source_paragraphs = <<>>
    /\ keywords = <<>>
    /\ source_checkboxes = <<>>
    /\ output_area = <<>>
    /\ matching_paragraphs = <<>>
    /\ snack_bar = NoSnackBar
    /\ shell = "Idle"
    /\ document = NoDocument

Init ==
    /\ ShellInit
    /\ par_in = <<>>
    /\ kws_in = <<>>
    /\ fun_out = NotCalled

Next ==
    \/ PickFiles /\ UNCHANGED funVars
    \/ ProcessClick /\ UNCHANGED funVars
    \/ ToggleCheckbox /\ UNCHANGED funVars
    \/ SaveResult /\ UNCHANGED funVars

Spec == Init /\ [][Next]_vars

InitFilter ==
    /\ ShellInit
    /\ par_in \in TextsUpTo(MaxParLen)
    /\ kws_in \in KeywordListsUpTo(MaxKeywords, MaxKwLen)
    /\ fun_out = NotCalled

NextFilter == ApplyFilter /\ UNCHANGED shellVars

SpecFilter == InitFilter /\ [][NextFilter]_vars
----------------------------------------------------------------------------
(* Properties *)

mp == matching_paragraphs

\* the checkbox of the source is ticked
Included(source) ==
    \E i \in 1..Len(source_checkboxes) :
        source_checkboxes[i].source = source /\ source_checkboxes[i].value.value

\* a place in the session: the number of a source in the mapping and the
\* number of a paragraph in its list
Places ==
    UNION {{<<si, pi>> : pi \in 1..Len(source_paragraphs[si].value)} :
              si \in 1..Len(source_paragraphs)}

SrcAt(a) == source_paragraphs[a[1]].source
ParAt(a) == source_paragraphs[a[1]].value[a[2]]

\* source order first, paragraph order within a source
Before(a, b) == a[1] < b[1] \/ (a[1] = b[1] /\ a[2] < b[2])

SamePrefix(p, q) == Prefix(p, PrefixLen) = Prefix(q, PrefixLen)

\* the places of the included sources whose paragraph matches a keyword
MatchPlaces ==
    {a \in Places : Included(SrcAt(a)) /\ paragraph_matches(ParAt(a), keywords)}

\* of these, the ones no earlier one shares its prefix with
FirstPlaces ==
    {a \in MatchPlaces :
        \A b \in MatchPlaces : SamePrefix(ParAt(a), ParAt(b)) => ~Before(b, a)}

\* C1: the list update_output built holds no two entries whose paragraphs
\* agree on their first 200 characters, and after a completed run or a toggle
\* every entry is the first paragraph with its prefix, in source-then-paragraph
\* order, among the matching paragraphs of the included sources.
C1_NoSharedPrefix ==
    /\ \A i, j \in 1..Len(mp) : i < j => ~SamePrefix(mp[i][2], mp[j][2])
    /\ shell = "Ready" =>
          \A i \in 1..Len(mp) : \E a \in FirstPlaces : mp[i] = <<SrcAt(a), ParAt(a)>>

\* two different paragraphs of two included sources agree on their first 200
\* characters, both match, and the earlier one is in the list
C1_Witness ==
    /\ shell = "Ready"
    /\ \E a, b \in MatchPlaces :
          /\ a[1] < b[1]
          /\ ParAt(a) # ParAt(b)
          /\ SamePrefix(ParAt(a), ParAt(b))
          /\ \E i \in 1..Len(mp) : mp[i] = <<SrcAt(a), ParAt(a)>>

\* C2: once a submit has been aborted by a failed load and the shell is back
\* in Idle, the mapping holds none of the sources that run loaded; the run
\* empties the mapping first, so it holds nothing at all.
C2_NoPartialState == shell = "Idle" => source_paragraphs = <<>>

\* the keyword lists a submit can set
SubmittedKeywordLists == {<<>>, <<<<"b">>, <<"A">>>>}

C4_RejectedSubmit ==
    [][\A url_value \in UrlInputs, keywords_value \in KeywordInputs :
          \A fail_at \in 0..LoadCount(url_value) :
             ( /\ process_click(url_value, keywords_value, fail_at)
               /\ \/ strip(url_value) = <<>> /\ PickedFiles = <<>>
                  \/ SplitKeywords(strip(keywords_value)) = <<>> )
             => /\ snack_bar' \in {MsgNoSource, MsgNoKeyword}
                /\ UNCHANGED <<source_paragraphs, keywords, source_checkboxes,
                               output_area, matching_paragraphs, shell>>]_vars

\* C5: every entry of the list held for display names a source that is a key
\* of the mapping.
C5_SourcesPresent ==
    \A i \in 1..Len(mp) : HasKey(source_paragraphs, mp[i][1])

\* C6: a document written while the shell is in Idle has no paragraph.
C6_IdleExportEmpty ==
    (document.saved /\ shell = "Idle") => document.paragraphs = <<>>

\* the header of an entry as the result text spells it
EntryHeader(source) ==
    <<"*","*","Z","r","o","d","l","o",":"," ">> \o source \o <<"*","*","\n","\n">>

\* the mapping a completed run leaves for this URL and the picked files
RunKeys(url_value) ==
    (IF url_value # <<>> THEN <<UrlKey(url_value)>> ELSE <<>>)
    \o [i \in 1..Len(PickedFiles) |-> PdfKey(PickedFiles[i].name)]

\* C7: after a completed run or a toggle the list holds exactly the first
\* paragraph of every prefix among the matching paragraphs of the included
\* sources, in source-then-paragraph order, none from a source that is toggled
\* off; the text shows each under the header of its own source; and a run
\* files the URL first and then the PDFs in the order they were picked.
C7_ExactOrdered ==
    /\ [](shell = "Ready" =>
            /\ Len(mp) = Cardinality(FirstPlaces)
            /\ \A i \in 1..Len(mp) :
                  /\ Included(mp[i][1])
                  /\ \E a \in FirstPlaces :
                        /\ mp[i] = <<SrcAt(a), ParAt(a)>>
                        /\ Cardinality({b \in FirstPlaces : Before(b, a)}) = i - 1
            /\ output_area =
                  join(<<"\n","-","-","-","\n">>,
                       [i \in 1..Len(mp) |->
                           EntryHeader(mp[i][1]) \o bold_keywords(mp[i][2], keywords)
                           \o <<"\n">>]))
    /\ [][(picker_result' = picker_result /\ shell' = "Ready"
             /\ source_paragraphs' # source_paragraphs)
          => \E url_value \in UrlInputs : Keys(source_paragraphs') = RunKeys(url_value)]_vars

\* three sources, the first toggled off, and entries of the second and of the
\* third in the list
C7_Witness ==
    /\ shell = "Ready"
    /\ Len(source_paragraphs) = 3
    /\ ~Included(source_paragraphs[1].source)
    /\ \E a \in Places : a[1] = 1 /\ paragraph_matches(ParAt(a), keywords)
    /\ \E i, j \in 1..Len(mp) :
          /\ i < j
          /\ mp[i][1] = source_paragraphs[2].source
          /\ mp[j][1] = source_paragraphs[3].source

\* C8: in Ready the list and the text are what update_output makes of the
\* mapping, the keyword list and the toggles as they are now, every source of
\* the mapping has its toggle, and a completed run leaves every toggle on.
C8_OutputCurrent ==
    /\ [](shell = "Ready" =>
            /\ Keys(source_checkboxes) = Keys(source_paragraphs)
            /\ mp = MatchingParagraphs(source_paragraphs, source_checkboxes, keywords)
            /\ output_area = build_result_text_with_sources(mp, keywords))
    /\ [][(shell' = "Ready"
             /\ (shell = "Idle" \/ source_paragraphs' # source_paragraphs
                                \/ keywords' # keywords))
          => \A i \in 1..Len(source_checkboxes') : source_checkboxes'[i].value.value]_vars

\* a toggle is off and the text shows what is left
C8_Witness ==
    /\ shell = "Ready"
    /\ \E i \in 1..Len(source_checkboxes) : ~source_checkboxes[i].value.value
    /\ \E a \in Places : ~Included(SrcAt(a)) /\ paragraph_matches(ParAt(a), keywords)
    /\ output_area # <<>>

\* the same letter, in whichever case
SameLetter(c, d) ==
    c = d \/ \E n \in 1..Len(LowerLetters) : {c, d} = {LowerLetters[n], UpperLetters[n]}

\* a word starts or ends at the gap before P[i]: a word character on exactly
\* one side of it
EdgeOfWord(P, i) ==
    LET before == IF i > 1 THEN IsWordChar(P[i - 1]) ELSE FALSE
        after == IF i <= Len(P) THEN IsWordChar(P[i]) ELSE FALSE
    IN  before # after

\* K stands in P at i, letter case aside
StandsAt(P, K, i) ==
    i + Len(K) - 1 <= Len(P) /\ \A n \in 1..Len(K) : SameLetter(P[i + n - 1], K[n])

\* K stands in P as a whole word: with a word boundary on both sides
WholeWordIn(P, K) ==
    \E i \in 1..Len(P) :
        StandsAt(P, K, i) /\ EdgeOfWord(P, i) /\ EdgeOfWord(P, i + Len(K))

\* C9: paragraph_matches is true exactly when some non-empty keyword stands
\* in the paragraph as a whole word, letter case aside; with no keyword, or
\* only empty ones, it is false and the selection is empty.
C9_WholeWord ==
    fun_out.called =>
       /\ fun_out.matches =
             (\E k \in 1..Len(kws_in) : kws_in[k] # <<>> /\ WholeWordIn(par_in, kws_in[k]))
       /\ (\A k \in 1..Len(kws_in) : kws_in[k] = <<>>)
             => (~fun_out.matches /\ fun_out.selected = <<>>)
       /\ fun_out.selected =
             (IF fun_out.matches THEN <<<<OneSource, par_in>>>> ELSE <<>>)

\* the keyword stands in the paragraph only inside a longer word, and the
\* filter has turned the paragraph down
C9_Witness ==
    /\ fun_out.called
    /\ ~fun_out.matches
    /\ Len(kws_in) = 1
    /\ kws_in[1] # <<>>
    /\ \A n \in 1..Len(kws_in[1]) : IsWordChar(kws_in[1][n])
    /\ \E i \in 1..Len(par_in) : StandsAt(par_in, kws_in[1], i)

\* the paragraphs of the result text in plain text: per entry the header line
\* and the paragraph, the separator line running into the next header
PlainParagraphs ==
    Concat([i \in 1..Len(mp) |->
               << (IF i = 1 THEN <<>> ELSE <<"-","-","-","\n">>)
                     \o <<"Z","r","o","d","l","o",":"," ">> \o mp[i][1],
                  strip(mp[i][2]) >>])

\* C10: the paragraphs of a written document are the blank-line separated
\* segments of the result text with the markup of the headers and of the
\* keywords removed.
C10_RoundTrip == document.saved => document.paragraphs = PlainParagraphs

====
